---- MODULE Spec2Model ----
(***************************************************************************)
(* Melody-track extraction of PopGlitch-VAE (src/extract_melody.py):       *)
(* process_directory walks the input files, extract_melody loads each MIDI *)
(* document, identify_melody_track scores its tracks, and the winning      *)
(* track is written out as a one-track document.                           *)
(*                                                                         *)
(* Scores are Python floats in the source; here they are exact rationals   *)
(* [n, d] in lowest terms, so comparisons are those of the real numbers    *)
(* the float expressions denote.                                           *)
(*                                                                         *)
(* Two further programs are modelled at the end of the module, each under  *)
(* its own specification: convert_to_trio (src/convert_to_trio.py, under   *)
(* SpecTrio) and freeze_layers_for_digiscore (src/train_with_freeze.py,    *)
(* under SpecFreeze).                                                      *)
(***************************************************************************)
EXTENDS Integers, Sequences, FiniteSets, TLC

VARIABLES files, fi, pc, stats, midi_data, track_info, melody_track,
          new_midi, out, ret, called, picked,
          midi_file, trio_pc, track_i, trio_new, trio_saved, trio_ret,
          model_layers, layer_i, counts, set_false, freeze_pc

\* the state of process_directory and extract_melody
walkVars == <<files, fi, pc, stats, midi_data, track_info, melody_track,
              new_midi, out, ret, called, picked>>

\* the state of convert_to_trio (src/convert_to_trio.py)
trioVars == <<midi_file, trio_pc, track_i, trio_new, trio_saved, trio_ret>>

\* the programs of the repository other than the melody extraction
\* the state of freeze_layers_for_digiscore (src/train_with_freeze.py)
freezeVars == <<model_layers, layer_i, counts, set_false, freeze_pc>>

otherVars == <<trioVars, freezeVars>>

vars == <<walkVars, otherVars>>

\* convert_to_trio is not running
TrioIdle ==
    /\ midi_file = <<>>
    /\ trio_pc = "off"
    /\ track_i = 0
    /\ trio_new = <<>>
    /\ trio_saved = <<>>
    /\ trio_ret = "none"

\* freeze_layers_for_digiscore is not running
FreezeIdle ==
    /\ model_layers = <<>>
    /\ layer_i = 0
    /\ counts = <<>>
    /\ set_false = {}
    /\ freeze_pc = "off"

\* ------------------------------------------------------------------ bounds
MaxTracks == 2
MaxNotes == 3
MaxFiles == 3

\* ------------------------------------------------------- rational numbers
Abs(x) == IF x < 0 THEN -x ELSE x

RECURSIVE Gcd(_, _)
Gcd(a, b) == IF b = 0 THEN a ELSE Gcd(b, a % b)

\* the rational n/d (d > 0) in lowest terms; d = 0 is the outcome of a
\* division by zero (Python raises ZeroDivisionError) and stays in every
\* value computed from it
Rat(n, d) ==
    IF d = 0 THEN [n |-> n, d |-> 0]
    ELSE LET g == Gcd(Abs(n), d)
         IN  [n |-> n \div g, d |-> d \div g]

Raised(a) == a.d = 0

Zero == Rat(0, 1)

\* the arithmetic reduces by common divisors first, to keep the integers small
Common(x, y) == IF x = 0 /\ y = 0 THEN 1 ELSE Gcd(x, y)

RAdd(a, b) ==
    LET g == Common(a.d, b.d)
    IN  Rat(a.n * (b.d \div g) + b.n * (a.d \div g), (a.d \div g) * b.d)

RSub(a, b) ==
    LET g == Common(a.d, b.d)
    IN  Rat(a.n * (b.d \div g) - b.n * (a.d \div g), (a.d \div g) * b.d)

RMul(a, b) ==
    LET g == Common(Abs(a.n), b.d)
        h == Common(Abs(b.n), a.d)
    IN  Rat((a.n \div g) * (b.n \div h), (a.d \div h) * (b.d \div g))

\* a / b for b >= 0
RDiv(a, b) == RMul(a, [n |-> b.d, d |-> b.n])

RLess(a, b) ==
    LET g == Common(a.d, b.d)
    IN  a.n * (b.d \div g) < b.n * (a.d \div g)

RLeq(a, b) ==
    LET g == Common(a.d, b.d)
    IN  a.n * (b.d \div g) <= b.n * (a.d \div g)

RPos(a) == a.n > 0

\* max of a non-empty sequence of rationals, as Python's max(): the first
\* of the largest
RECURSIVE RMaxFrom(_, _, _)
RMaxFrom(s, k, best) ==
    IF k > Len(s) THEN best
    ELSE RMaxFrom(s, k + 1, IF RLess(best, s[k]) THEN s[k] ELSE best)

RMax(s) == RMaxFrom(s, 2, s[1])

RECURSIVE SumSeq(_)
SumSeq(s) == IF s = <<>> THEN 0 ELSE s[1] + SumSeq(Tail(s))

\* ------------------------------------------------------------ track names
\* a name is a sequence of characters; the CJK characters of the keywords
\* are written by their pinyin ("xuan","lv" is U+65CB U+5F8B, "zhu","ti" is
\* U+4E3B U+9898, "zhu","zou" is U+4E3B U+594F)
LowerChar(c) ==
    CASE c = "A" -> "a" [] c = "B" -> "b" [] c = "D" -> "d" [] c = "I" -> "i"
      [] c = "L" -> "l" [] c = "M" -> "m" [] c = "N" -> "n" [] c = "O" -> "o"
      [] c = "S" -> "s" [] c = "E" -> "e"
      [] OTHER -> c

\* str.lower()
Lower(s) == [k \in 1..Len(s) |-> LowerChar(s[k])]

\* Python's `sub in s` for strings
Contains(s, sub) ==
    \E k \in 0..(Len(s) - Len(sub)) :
        \A j \in 1..Len(sub) : s[k + j] = sub[j]

melody_keywords ==
    << <<"m","e","l","o","d","y">>, <<"xuan","lv">>, <<"zhu","ti">>, <<"zhu","zou">>,
       <<"s","o","l","o">>, <<"l","e","a","d">>, <<"m","a","i","n">> >>

NameBonus == 10

\* the match without lower-casing the name
NameScore_CaseSensitive(name) ==
    IF \E k \in 1..Len(melody_keywords) : Contains(name, melody_keywords[k])
    THEN NameBonus ELSE 0

\* lines 55-60: 10 when the lower-cased name contains a keyword, else 0
NameScore(name) ==
    LET name_lower == IF name # <<>> THEN Lower(name) ELSE <<>>
    IN  IF \E k \in 1..Len(melody_keywords) :
               Contains(name_lower, Lower(melody_keywords[k]))
        THEN NameBonus ELSE 0

\* ------------------------------------------------------------- documents
\* a note is [pitch, velocity, start, end]; an instrument is
\* [name, program, is_drum, notes]; a document is
\* [resolution, tempi, instruments]

RECURSIVE MaxEnd(_)
MaxEnd(notes) ==
    IF notes = <<>> THEN 0
    ELSE LET m == MaxEnd(Tail(notes))
         IN  IF notes[1].end > m THEN notes[1].end ELSE m

\* midi_data.get_end_time(): the latest note end over ALL instruments,
\* drums included; 0 with no notes
get_end_time(doc) ==
    LET ends == {MaxEnd(doc.instruments[k].notes) : k \in 1..Len(doc.instruments)}
    IN  IF ends = {} THEN 0 ELSE CHOOSE m \in ends : \A e \in ends : e <= m

\* ------------------------------------------------- identify_melody_track
PitchThreshold == 40
DensityWeight == Rat(4, 10)
PitchWeight == Rat(3, 10)
ChangeWeight == Rat(3, 10)

\* lines 47-48
AvgPitch(notes) ==
    IF Len(notes) > 0
    THEN Rat(SumSeq([k \in 1..Len(notes) |-> notes[k].pitch]), Len(notes))
    ELSE Zero

\* lines 51-52
AvgPitchChange(notes) ==
    LET pitch_changes ==
            [k \in 1..(Len(notes) - 1) |-> Abs(notes[k + 1].pitch - notes[k].pitch)]
    IN  IF Len(notes) >= 2 THEN Rat(SumSeq(pitch_changes), Len(pitch_changes))
        ELSE Zero

\* the density without the guard on the duration
NoteDensity_Unguarded(notes, total_duration) ==
    Rat(Len(notes), total_duration)

\* lines 43-44
NoteDensity(notes, total_duration) ==
    IF total_duration > 0 THEN Rat(Len(notes), total_duration) ELSE Zero

\* only the empty tracks are skipped
Skipped_KeepDrums(instrument) ==
    Len(instrument.notes) = 0

\* only the drum tracks are skipped
Skipped_KeepEmpty(instrument) ==
    instrument.is_drum

\* lines 35-40: is the track skipped
Skipped(instrument) ==
    Len(instrument.notes) = 0 \/ instrument.is_drum

\* lines 63-74: the record of instrument number i (0-based, as enumerate)
TrackInfo(doc, i) ==
    LET instrument == doc.instruments[i + 1]
    IN  [index |-> i,
         name |-> instrument.name,
         program |-> instrument.program,
         is_drum |-> instrument.is_drum,
         num_notes |-> Len(instrument.notes),
         note_density |-> NoteDensity(instrument.notes, get_end_time(doc)),
         avg_pitch |-> AvgPitch(instrument.notes),
         avg_pitch_change |-> AvgPitchChange(instrument.notes),
         name_score |-> NameScore(instrument.name)]

\* lines 33-74: the loop over the instruments, in order
RECURSIVE CollectFrom(_, _)
CollectFrom(doc, i) ==
    IF i >= Len(doc.instruments) THEN <<>>
    ELSE IF Skipped(doc.instruments[i + 1])
         THEN CollectFrom(doc, i + 1)
         ELSE <<TrackInfo(doc, i)>> \o CollectFrom(doc, i + 1)

Collect(doc) == CollectFrom(doc, 0)

\* line 80 (tracks is not empty here)
MaxDensity(tracks) ==
    RMax([k \in 1..Len(tracks) |-> tracks[k].note_density])

\* lines 83-87
MaxPitchChange(tracks) ==
    LET has_pitch_change ==
            \E k \in 1..Len(tracks) : RPos(tracks[k].avg_pitch_change)
    IN  IF has_pitch_change
        THEN RMax(SelectSeq([k \in 1..Len(tracks) |-> tracks[k].avg_pitch_change],
                            RPos))
        ELSE Rat(1, 1)

\* line 91
DensityScore(track, max_density) ==
    IF RPos(max_density)
    THEN RDiv(RMul(DensityWeight, track.note_density), max_density)
    ELSE Zero

\* line 94
PitchScore(track) ==
    IF RLess(Rat(PitchThreshold, 1), track.avg_pitch)
    THEN RDiv(RMul(PitchWeight, RSub(track.avg_pitch, Rat(PitchThreshold, 1))),
              Rat(PitchThreshold, 1))
    ELSE Zero

\* the change term without its normalisation by max_pitch_change
ChangeScore_Unnormalised(track, max_pitch_change) ==
    IF RPos(max_pitch_change) /\ RPos(track.avg_pitch_change)
    THEN RMul(ChangeWeight, track.avg_pitch_change)
    ELSE Zero

\* line 97
ChangeScore(track, max_pitch_change) ==
    IF RPos(max_pitch_change) /\ RPos(track.avg_pitch_change)
    THEN RMul(ChangeWeight, RDiv(track.avg_pitch_change, max_pitch_change))
    ELSE Zero

\* lines 89-103: the record with its score; the three terms are kept as the
\* values line 103 prints
Scored(track, max_density, max_pitch_change) ==
    LET density_score == DensityScore(track, max_density)
        pitch_score == PitchScore(track)
        change_score == ChangeScore(track, max_pitch_change)
    IN  [index |-> track.index,
         name |-> track.name,
         program |-> track.program,
         is_drum |-> track.is_drum,
         num_notes |-> track.num_notes,
         note_density |-> track.note_density,
         avg_pitch |-> track.avg_pitch,
         avg_pitch_change |-> track.avg_pitch_change,
         name_score |-> track.name_score,
         density_score |-> density_score,
         pitch_score |-> pitch_score,
         change_score |-> change_score,
         melody_score |-> RAdd(RAdd(RAdd(Rat(track.name_score, 1), density_score),
                                    pitch_score), change_score)]

ScoreAll(tracks) ==
    [k \in 1..Len(tracks) |->
        Scored(tracks[k], MaxDensity(tracks), MaxPitchChange(tracks))]

\* an ascending sort (reverse=True left out)
InsertDesc_Ascending(sorted, x) ==
    LET before == {k \in 1..Len(sorted) : RLeq(sorted[k].melody_score, x.melody_score)}
        n == Cardinality(before)
    IN  SubSeq(sorted, 1, n) \o <<x>> \o SubSeq(sorted, n + 1, Len(sorted))

\* a descending sort that puts a record before the records of equal score
InsertDesc_BeforeEqual(sorted, x) ==
    LET before == {k \in 1..Len(sorted) : RLess(x.melody_score, sorted[k].melody_score)}
        n == Cardinality(before)
    IN  SubSeq(sorted, 1, n) \o <<x>> \o SubSeq(sorted, n + 1, Len(sorted))

\* line 106: list.sort(key=melody_score, reverse=True) is stable: a record
\* goes behind every record already placed whose score is not smaller
InsertDesc(sorted, x) ==
    LET before == {k \in 1..Len(sorted) : RLeq(x.melody_score, sorted[k].melody_score)}
        n == Cardinality(before)
    IN  SubSeq(sorted, 1, n) \o <<x>> \o SubSeq(sorted, n + 1, Len(sorted))

RECURSIVE SortDescFrom(_, _, _)
SortDescFrom(s, k, sorted) ==
    IF k > Len(s) THEN sorted
    ELSE SortDescFrom(s, k + 1, InsertDesc(sorted, s[k]))

SortDesc(s) == SortDescFrom(s, 1, <<>>)

\* lines 76-106: the ranked records, empty with no candidate
Ranked(doc) ==
    LET tracks == Collect(doc)
    IN  IF tracks = <<>> THEN <<>> ELSE SortDesc(ScoreAll(tracks))

\* a ZeroDivisionError in the scoring leaves identify_melody_track
ScoringRaises(ranked) ==
    \E k \in 1..Len(ranked) :
        \/ Raised(ranked[k].note_density)
        \/ Raised(ranked[k].avg_pitch)
        \/ Raised(ranked[k].avg_pitch_change)
        \/ Raised(ranked[k].melody_score)

\* the choice among the ranked records changes from one call to the next
Winner_DependsOnHistory(ranked) ==
    IF ranked = <<>> THEN 0
    ELSE IF stats.success % 2 = 0 THEN ranked[1].index + 1
         ELSE ranked[Len(ranked)].index + 1

\* lines 77, 109: the instrument returned, as its position in
\* midi_data.instruments (1-based); 0 is None
Winner(ranked) ==
    IF ranked = <<>> THEN 0 ELSE ranked[1].index + 1

\* ----------------------------------------------------------- extract_melody
DefaultTempo == 120

\* lines 125-129: get_tempo_changes() is (times, tempi)
InitialTempo(doc) ==
    IF Len(doc.tempi) > 0 THEN doc.tempi[1] ELSE DefaultTempo

\* the copy with pitch and velocity exchanged
CopyNotes_SwapPitchVelocity(notes) ==
    [k \in 1..Len(notes) |->
        [velocity |-> notes[k].pitch,
         pitch |-> notes[k].velocity,
         start |-> notes[k].start,
         end |-> notes[k].end]]

\* lines 144-150
CopyNotes(notes) ==
    [k \in 1..Len(notes) |->
        [velocity |-> notes[k].velocity,
         pitch |-> notes[k].pitch,
         start |-> notes[k].start,
         end |-> notes[k].end]]

\* lines 137-153
NewInstrument(melody) ==
    [name |-> <<"M","e","l","o","d","y">>,
     program |-> melody.program,
     is_drum |-> FALSE,
     notes |-> CopyNotes(melody.notes)]

\* lines 131-153
NewMidi(doc, melody) ==
    [resolution |-> doc.resolution,
     tempi |-> <<InitialTempo(doc)>>,
     instruments |-> <<NewInstrument(melody)>>]

\* a PrettyMIDI object with nothing in it; also stands for "no object"
NoDoc == [resolution |-> 0, tempi |-> <<>>, instruments |-> <<>>]

\* -------------------------------------------------------- process_directory
\* line 181: file.lower().endswith(('.mid', '.midi'))
EndsWith(s, suffix) ==
    /\ Len(s) >= Len(suffix)
    /\ SubSeq(s, Len(s) - Len(suffix) + 1, Len(s)) = suffix

\* the test without lower-casing the name
IsMidiName_CaseSensitive(name) ==
    \/ EndsWith(name, <<".","m","i","d">>)
    \/ EndsWith(name, <<".","m","i","d","i">>)

IsMidiName(name) ==
    \/ EndsWith(Lower(name), <<".","m","i","d">>)
    \/ EndsWith(Lower(name), <<".","m","i","d","i">>)

\* ------------------------------------------------------------------ inputs
Pitches == {36, 60, 127}

\* the notes of a track: n notes alternating between two pitches, one note
\* per time unit (unit 0 puts every note at time 0)
PitchPairs == {<<60, 60>>, <<36, 60>>, <<127, 36>>}

NoteShapes ==
    {<<>>} \cup
    {[k \in 1..n |-> IF k % 2 = 1 THEN pp[1] ELSE pp[2]] :
        n \in 1..MaxNotes, pp \in PitchPairs}

MkNotes(pitches, unit) ==
    [k \in 1..Len(pitches) |->
        [pitch |-> pitches[k],
         velocity |-> 127 - 10 * k,
         start |-> unit * (k - 1),
         end |-> unit * k]]

Headers ==
    {[name |-> <<"L","e","a","d">>, program |-> 73, is_drum |-> FALSE],
     [name |-> <<"B","a","s","s">>, program |-> 33, is_drum |-> FALSE],
     [name |-> <<"M","A","I","N"," ","k","i","t">>, program |-> 0, is_drum |-> TRUE]}

\* resolution, tempo changes and time unit of a document
Timed == [resolution |-> 220, tempi |-> <<120>>, unit |-> 1]
Untimed == [resolution |-> 480, tempi |-> <<90, 140>>, unit |-> 0]

TrackShapes == Headers \X NoteShapes

MkInstrument(ts, unit) ==
    [name |-> ts[1].name,
     program |-> ts[1].program,
     is_drum |-> ts[1].is_drum,
     notes |-> MkNotes(ts[2], unit)]

SeqsUpTo(S, n) == UNION {[1..k -> S] : k \in 0..n}

MkDoc(m, tss) ==
    [resolution |-> m.resolution,
     tempi |-> m.tempi,
     instruments |-> [k \in 1..Len(tss) |-> MkInstrument(tss[k], m.unit)]]

\* the tracks of the documents: up to MaxTracks tracks; up to two in the
\* documents of total duration 0
TimedTracks == SeqsUpTo(TrackShapes, MaxTracks)
UntimedTracks == SeqsUpTo(TrackShapes, 2)

\* a file of the input tree: its base name, whether PrettyMIDI can parse it,
\* the document it holds, and whether its output path can be written
File(name, parses, doc, writable) ==
    [name |-> name, parses |-> parses, doc |-> doc, writable |-> writable]

SongDoc ==
    [resolution |-> 220, tempi |-> <<120>>,
     instruments |->
        << MkInstrument(<<[name |-> <<"M","A","I","N"," ","k","i","t">>,
                           program |-> 0, is_drum |-> TRUE], <<36, 36>>>>, 1),
           MkInstrument(<<[name |-> <<"B","a","s","s">>,
                           program |-> 33, is_drum |-> FALSE], <<36, 60, 36>>>>, 1),
           MkInstrument(<<[name |-> <<>>,
                           program |-> 0, is_drum |-> FALSE], <<127, 60, 127>>>>, 1),
           MkInstrument(<<[name |-> <<"L","e","a","d">>,
                           program |-> 73, is_drum |-> FALSE], <<60, 127>>>>, 1) >>]

DrumDoc ==
    [resolution |-> 480, tempi |-> <<90, 140>>,
     instruments |->
        << MkInstrument(<<[name |-> <<"M","A","I","N"," ","k","i","t">>,
                           program |-> 0, is_drum |-> TRUE], <<36, 36>>>>, 1),
           MkInstrument(<<[name |-> <<"L","e","a","d">>,
                           program |-> 73, is_drum |-> FALSE], <<>>>>, 1),
           MkInstrument(<<[name |-> <<>>,
                           program |-> 0, is_drum |-> FALSE], <<>>>>, 1),
           MkInstrument(<<[name |-> <<"s","o","l","o">>,
                           program |-> 0, is_drum |-> TRUE], <<60>>>>, 1) >>]

SoloDoc ==
    [resolution |-> 220, tempi |-> <<120>>,
     instruments |->
        << MkInstrument(<<[name |-> <<"S","O","L","O">>,
                           program |-> 80, is_drum |-> FALSE], <<127, 36, 127>>>>, 1) >>]

TreeFiles ==
    {File(<<"a",".","m","i","d">>, TRUE, SongDoc, TRUE),
     File(<<"B",".","M","I","D","I">>, TRUE, SongDoc, TRUE),
     File(<<"c",".","m","i","d">>, TRUE, SongDoc, FALSE),
     File(<<"d",".","M","i","d">>, TRUE, DrumDoc, TRUE),
     File(<<"e",".","m","i","d","i">>, FALSE, NoDoc, TRUE),
     File(<<"n",".","t","x","t">>, FALSE, NoDoc, TRUE),
     File(<<"m","i","d">>, TRUE, SongDoc, TRUE),
     File(<<"f",".","M","I","D">>, TRUE, SoloDoc, TRUE)}

SongFile(d) == File(<<"a",".","m","i","d">>, TRUE, d, TRUE)
SameSongFile(d) == File(<<"B",".","M","I","D","I">>, TRUE, d, TRUE)

\* the trees walked: one file with any document, two files with the same
\* document (of fewer than MaxTracks tracks), or up to MaxFiles of the files
\* above
InitFiles ==
    \/ \E tss \in TimedTracks : files = <<SongFile(MkDoc(Timed, tss))>>
    \/ \E tss \in UntimedTracks : files = <<SongFile(MkDoc(Untimed, tss))>>
    \/ \E tss \in TimedTracks :
          /\ Len(tss) < MaxTracks
          /\ files = <<SongFile(MkDoc(Timed, tss)), SameSongFile(MkDoc(Timed, tss))>>
    \/ \E tss \in UntimedTracks :
          /\ Len(tss) < MaxTracks
          /\ files = <<SongFile(MkDoc(Untimed, tss)), SameSongFile(MkDoc(Untimed, tss))>>
    \/ files \in SeqsUpTo(TreeFiles, MaxFiles)

\* ------------------------------------------------------------------- state
\* files: os.walk's files in visiting order; fi: the file the loop is at;
\* pc: the statement the program is at; stats: line 171; midi_data,
\* track_info, melody_track, new_midi: the locals of extract_melody and
\* identify_melody_track; out: the output file of each input file (NoDoc
\* when there is none); ret: what extract_melody returned for each file
\* ("none" before it returns); called: the files passed to extract_melody;
\* picked: what identify_melody_track returned for each file
Init ==
    /\ InitFiles
    /\ fi = 1
    /\ pc = "walk"
    /\ stats = [total |-> 0, success |-> 0, failed |-> 0]
    /\ midi_data = NoDoc
    /\ track_info = <<>>
    /\ melody_track = 0
    /\ new_midi = NoDoc
    /\ out = [k \in 1..Len(files) |-> NoDoc]
    /\ ret = [k \in 1..Len(files) |-> "none"]
    /\ called = <<>>
    /\ picked = [k \in 1..Len(files) |-> 0]
    /\ TrioIdle
    /\ FreezeIdle

\* a failure ends the walk, as an exception leaving extract_melody would
Return_StopOnFailure(value) ==
    /\ ret' = [ret EXCEPT ![fi] = IF value THEN "True" ELSE "False"]
    /\ stats' = IF value
                THEN [stats EXCEPT !.success = @ + 1]
                ELSE [stats EXCEPT !.failed = @ + 1]
    /\ fi' = IF value THEN fi + 1 ELSE fi
    /\ pc' = IF value THEN "walk" ELSE "done"

\* lines 195-198 after extract_melody returns: count it, go on with the walk
Return(value) ==
    /\ ret' = [ret EXCEPT ![fi] = IF value THEN "True" ELSE "False"]
    /\ stats' = IF value
                THEN [stats EXCEPT !.success = @ + 1]
                ELSE [stats EXCEPT !.failed = @ + 1]
    /\ fi' = fi + 1
    /\ pc' = "walk"

\* lines 179-181: a file that is no MIDI file is passed over
SkipFile ==
    /\ pc = "walk"
    /\ fi <= Len(files)
    /\ ~IsMidiName(files[fi].name)
    /\ fi' = fi + 1
    /\ UNCHANGED <<files, pc, stats, midi_data, track_info, melody_track,
                   new_midi, out, ret, called, picked>>
    /\ UNCHANGED otherVars

\* lines 181-195: a MIDI file is counted and passed to extract_melody
CallExtract ==
    /\ pc = "walk"
    /\ fi <= Len(files)
    /\ IsMidiName(files[fi].name)
    /\ stats' = [stats EXCEPT !.total = @ + 1]
    /\ called' = Append(called, fi)
    /\ pc' = "load"
    /\ UNCHANGED <<files, fi, midi_data, track_info, melody_track, new_midi,
                   out, ret, picked>>
    /\ UNCHANGED otherVars

\* line 115: PrettyMIDI(input_file); lines 159-163 when it raises
Load ==
    /\ pc = "load"
    /\ IF files[fi].parses
       THEN /\ midi_data' = files[fi].doc
            /\ pc' = "identify"
            /\ UNCHANGED <<fi, stats, ret>>
       ELSE /\ Return(FALSE)
            /\ UNCHANGED midi_data
    /\ UNCHANGED <<files, track_info, melody_track, new_midi, out, called,
                   picked>>
    /\ UNCHANGED otherVars

\* lines 118-122: identify_melody_track, and the return on None; lines
\* 159-163 when the scoring raises
Identify ==
    /\ pc = "identify"
    /\ track_info' = Ranked(midi_data)
    /\ melody_track' = IF ScoringRaises(track_info') THEN 0 ELSE Winner(track_info')
    /\ picked' = [picked EXCEPT ![fi] = melody_track']
    /\ IF melody_track' = 0
       THEN Return(FALSE)
       ELSE /\ pc' = "build"
            /\ UNCHANGED <<fi, stats, ret>>
    /\ UNCHANGED <<files, midi_data, new_midi, out, called>>
    /\ UNCHANGED otherVars

\* lines 125-153: the new document with the copy of the winning track
Build ==
    /\ pc = "build"
    /\ new_midi' = NewMidi(midi_data, midi_data.instruments[melody_track])
    /\ pc' = "write"
    /\ UNCHANGED <<files, fi, stats, midi_data, track_info, melody_track,
                   out, ret, called, picked>>
    /\ UNCHANGED otherVars

\* lines 156-157: new_midi.write(output_file); lines 159-163 when it raises
Write ==
    /\ pc = "write"
    /\ IF files[fi].writable
       THEN /\ out' = [out EXCEPT ![fi] = new_midi]
            /\ Return(TRUE)
       ELSE /\ Return(FALSE)
            /\ UNCHANGED out
    /\ UNCHANGED <<files, midi_data, track_info, melody_track, new_midi, called,
                   picked>>
    /\ UNCHANGED otherVars

\* lines 200-204: the walk is over, the statistics are printed
Report ==
    /\ pc = "walk"
    /\ fi > Len(files)
    /\ pc' = "done"
    /\ UNCHANGED <<files, fi, stats, midi_data, track_info, melody_track,
                   new_midi, out, ret, called, picked>>
    /\ UNCHANGED otherVars

Next ==
    \/ SkipFile
    \/ CallExtract
    \/ Load
    \/ Identify
    \/ Build
    \/ Write
    \/ Report

Spec == Init /\ [][Next]_vars

TypeOK ==
    /\ fi \in 1..(Len(files) + 1)
    /\ pc \in {"walk", "load", "identify", "build", "write", "done"}
    /\ pc \in {"build", "write"} => melody_track \in 1..Len(midi_data.instruments)
    /\ stats.total = Len(called)

\* ------------------------------------------------------------- properties
\* identify_melody_track has returned for file k
Identified(k) ==
    /\ IsMidiName(files[k].name)
    /\ files[k].parses
    /\ \/ k < fi
       \/ k = fi /\ pc \in {"build", "write"}

\* extract_melody has returned for file k
Returned(k) == ret[k] # "none"

HasKeyword(name) ==
    \E k \in 1..Len(melody_keywords) : Contains(Lower(name), melody_keywords[k])

Eligible(instrument) ==
    Len(instrument.notes) > 0 /\ instrument.is_drum = FALSE

Tracks(k) == files[k].doc.instruments

\* C1: when a document has a non-drum, non-empty track whose name contains a
\* melody keyword (in any letter case), identify_melody_track returns a track
\* whose name contains a keyword, whatever the other tracks' scores are.
C1_KeywordTrackReturned ==
    \A k \in 1..Len(files) :
        (/\ Identified(k)
         /\ \E j \in 1..Len(Tracks(k)) :
                Eligible(Tracks(k)[j]) /\ HasKeyword(Tracks(k)[j].name))
        => /\ picked[k] \in 1..Len(Tracks(k))
           /\ HasKeyword(Tracks(k)[picked[k]].name)

\* a keyword track was returned although another candidate, without a keyword,
\* has more notes and a higher average pitch
C1_Witness ==
    \E k \in 1..Len(files) :
        /\ Identified(k)
        /\ picked[k] # 0
        /\ HasKeyword(Tracks(k)[picked[k]].name)
        /\ \E j \in 1..Len(Tracks(k)) :
              /\ Eligible(Tracks(k)[j])
              /\ ~HasKeyword(Tracks(k)[j].name)
              /\ Len(Tracks(k)[j].notes) > Len(Tracks(k)[picked[k]].notes)
              /\ RLess(AvgPitch(Tracks(k)[picked[k]].notes), AvgPitch(Tracks(k)[j].notes))

\* C2: the track returned is never a drum track and never a track without
\* notes, and the feature records are exactly those of the other tracks, one
\* each.
C2_DrumAndEmptyExcluded ==
    /\ \A k \in 1..Len(files) :
          (Identified(k) /\ picked[k] # 0) => Eligible(Tracks(k)[picked[k]])
    /\ pc # "identify" =>
          /\ {track_info[j].index + 1 : j \in 1..Len(track_info)}
                = {i \in 1..Len(midi_data.instruments) : Eligible(midi_data.instruments[i])}
          /\ \A i, j \in 1..Len(track_info) :
                track_info[i].index = track_info[j].index => i = j

\* a track was returned from a document that has a drum track with notes and
\* a keyword in its name
C2_Witness ==
    /\ pc = "build"
    /\ Len(track_info) < Len(midi_data.instruments)
    /\ \E i \in 1..Len(midi_data.instruments) :
          /\ midi_data.instruments[i].is_drum
          /\ Len(midi_data.instruments[i].notes) > 0
          /\ HasKeyword(midi_data.instruments[i].name)

\* C3: when every track is a drum track or has no notes (or there is no
\* track), identify_melody_track returns None, extract_melody returns False
\* and there is no output file; an output file exists only where
\* extract_melody returned True.
C3_NoCandidateNoOutput ==
    /\ \A k \in 1..Len(files) :
          (Identified(k) /\ \A j \in 1..Len(Tracks(k)) : ~Eligible(Tracks(k)[j]))
          => /\ picked[k] = 0
             /\ ret[k] = "False"
             /\ out[k] = NoDoc
    /\ \A k \in 1..Len(files) : out[k] # NoDoc => ret[k] = "True"

\* extraction failed on a document whose tracks are a drum track with notes
\* and an empty track
C3_Witness ==
    \E k \in 1..Len(files) :
        /\ Identified(k)
        /\ ret[k] = "False"
        /\ \A j \in 1..Len(Tracks(k)) : ~Eligible(Tracks(k)[j])
        /\ \E j \in 1..Len(Tracks(k)) : Len(Tracks(k)[j].notes) > 0
        /\ \E j \in 1..Len(Tracks(k)) : Len(Tracks(k)[j].notes) = 0

\* C4: the document written on success has exactly one track, named
\* "Melody", not a drum track, with the program of the winning track and a
\* note-for-note copy of its notes in the same order.
C4_OutputIsCopyOfWinner ==
    \A k \in 1..Len(files) :
        ret[k] = "True" =>
            LET w == Tracks(k)[picked[k]]
                o == out[k].instruments
            IN  /\ Len(o) = 1
                /\ o[1].name = <<"M","e","l","o","d","y">>
                /\ o[1].is_drum = FALSE
                /\ o[1].program = w.program
                /\ Len(o[1].notes) = Len(w.notes)
                /\ \A i \in 1..Len(w.notes) :
                      /\ o[1].notes[i].pitch = w.notes[i].pitch
                      /\ o[1].notes[i].velocity = w.notes[i].velocity
                      /\ o[1].notes[i].start = w.notes[i].start
                      /\ o[1].notes[i].end = w.notes[i].end

\* a success whose winner is not the first track, has another program than
\* the first track and several notes of different pitch
C4_Witness ==
    \E k \in 1..Len(files) :
        /\ ret[k] = "True"
        /\ picked[k] > 1
        /\ Tracks(k)[picked[k]].program # Tracks(k)[1].program
        /\ Len(Tracks(k)[picked[k]].notes) >= 2
        /\ Tracks(k)[picked[k]].notes[1].pitch # Tracks(k)[picked[k]].notes[2].pitch

NoKeywordCandidate ==
    \A j \in 1..Len(track_info) : ~HasKeyword(track_info[j].name)

\* C5 as stated: with no keyword among the candidates, a candidate A with a
\* strictly higher note_density and a strictly higher avg_pitch than a
\* candidate B is ranked above B, whatever their avg_pitch_change.
C5_Original ==
    NoKeywordCandidate =>
        \A a, b \in 1..Len(track_info) :
            (/\ RLess(track_info[b].note_density, track_info[a].note_density)
             /\ RLess(track_info[b].avg_pitch, track_info[a].avg_pitch))
            => a < b

\* C5 amended: with no keyword among the candidates, a candidate A with a
\* strictly higher note_density, a strictly higher avg_pitch and an
\* avg_pitch_change not lower than that of a candidate B is ranked above B.
C5_DenserHigherNotCalmerWins ==
    NoKeywordCandidate =>
        \A a, b \in 1..Len(track_info) :
            (/\ RLess(track_info[b].note_density, track_info[a].note_density)
             /\ RLess(track_info[b].avg_pitch, track_info[a].avg_pitch)
             /\ RLeq(track_info[b].avg_pitch_change, track_info[a].avg_pitch_change))
            => a < b

\* the returned track comes later in the document than a candidate it beats
\* on density, pitch and pitch change; neither has a keyword
C5_Witness ==
    /\ pc = "build"
    /\ NoKeywordCandidate
    /\ Len(track_info) >= 2
    /\ track_info[1].index > track_info[2].index
    /\ RLess(track_info[2].note_density, track_info[1].note_density)
    /\ RLess(track_info[2].avg_pitch, track_info[1].avg_pitch)
    /\ RLess(track_info[2].avg_pitch_change, track_info[1].avg_pitch_change)

SameScore(x, y) ==
    RLeq(x.melody_score, y.melody_score) /\ RLeq(y.melody_score, x.melody_score)

\* C6: records of equal melody_score stay in their input order, so among the
\* candidates with the highest score the one with the smallest track index is
\* returned.
C6_TiesKeepInputOrder ==
    /\ \A a, b \in 1..Len(track_info) :
          (a < b /\ SameScore(track_info[a], track_info[b]))
          => track_info[a].index < track_info[b].index
    /\ pc \in {"build", "write"} =>
          \A j \in 1..Len(track_info) :
              SameScore(track_info[j], track_info[1]) => melody_track <= track_info[j].index + 1

\* two candidates share the highest score
C6_Witness ==
    /\ pc = "build"
    /\ Len(track_info) >= 2
    /\ SameScore(track_info[1], track_info[2])
    /\ melody_track = track_info[1].index + 1

NonNameSum(t) == RAdd(RAdd(t.density_score, t.pitch_score), t.change_score)

\* C7 as stated: density_score <= 0.4, pitch_score <= 0.3, change_score <= 0.3
\* and their sum <= 1.0 for every candidate.
C7_Original ==
    \A j \in 1..Len(track_info) :
        /\ RLeq(track_info[j].density_score, Rat(4, 10))
        /\ RLeq(track_info[j].pitch_score, Rat(3, 10))
        /\ RLeq(track_info[j].change_score, Rat(3, 10))
        /\ RLeq(NonNameSum(track_info[j]), Rat(1, 1))

\* the pitch term of a track whose every pitch is 127
PitchScoreBound ==
    RDiv(RMul(PitchWeight, Rat(127 - PitchThreshold, 1)), Rat(PitchThreshold, 1))

\* C7 amended: for pitches in 0..127, density_score <= 0.4,
\* pitch_score <= 0.3 * (127 - 40) / 40 = 0.6525, change_score <= 0.3 and
\* their sum <= 1.3525 for every candidate.
C7_NonNameTermsBounded ==
    \A j \in 1..Len(track_info) :
        /\ RLeq(track_info[j].density_score, DensityWeight)
        /\ RLeq(track_info[j].pitch_score, PitchScoreBound)
        /\ RLeq(track_info[j].change_score, ChangeWeight)
        /\ RLeq(NonNameSum(track_info[j]),
                RAdd(RAdd(DensityWeight, PitchScoreBound), ChangeWeight))
        /\ RLess(NonNameSum(track_info[j]), Rat(NameBonus, 1))

\* a candidate with an average pitch above 80, another with the largest
\* pitch change, one with the largest density
C7_Witness ==
    /\ pc = "build"
    /\ \E j \in 1..Len(track_info) : RLess(Rat(3, 10), track_info[j].pitch_score)
    /\ \E j \in 1..Len(track_info) : track_info[j].change_score = ChangeWeight
    /\ \E j \in 1..Len(track_info) : track_info[j].density_score = DensityWeight

\* C8: no feature or score is the outcome of a division by zero; with a total
\* duration of 0 every note_density and density_score is 0; a track with
\* fewer than 2 notes has avg_pitch_change 0 and change_score 0; with no
\* positive avg_pitch_change every change_score is 0.
C8_NoDivisionByZero ==
    /\ \A j \in 1..Len(track_info) :
          /\ ~Raised(track_info[j].note_density)
          /\ ~Raised(track_info[j].avg_pitch)
          /\ ~Raised(track_info[j].avg_pitch_change)
          /\ ~Raised(track_info[j].density_score)
          /\ ~Raised(track_info[j].pitch_score)
          /\ ~Raised(track_info[j].change_score)
          /\ ~Raised(track_info[j].melody_score)
          /\ track_info[j].num_notes < 2 =>
                track_info[j].avg_pitch_change = Zero /\ track_info[j].change_score = Zero
    /\ (pc # "identify" /\ get_end_time(midi_data) = 0) =>
          \A j \in 1..Len(track_info) :
              track_info[j].note_density = Zero /\ track_info[j].density_score = Zero
    /\ (\A j \in 1..Len(track_info) : ~RPos(track_info[j].avg_pitch_change)) =>
          \A j \in 1..Len(track_info) : track_info[j].change_score = Zero

\* a document of total duration 0 with two candidates, one of them with a
\* single note, was scored and a track returned
C8_Witness ==
    /\ pc = "build"
    /\ get_end_time(midi_data) = 0
    /\ Len(track_info) >= 2
    /\ \E j \in 1..Len(track_info) : track_info[j].num_notes = 1
    /\ \E j \in 1..Len(track_info) : RPos(track_info[j].avg_pitch_change)

\* no pitch change at all among several candidates
C8_WitnessFlat ==
    /\ pc = "build"
    /\ Len(track_info) >= 2
    /\ \A j \in 1..Len(track_info) : track_info[j].change_score = Zero
    /\ \E j \in 1..Len(track_info) : track_info[j].num_notes >= 2

MidiFilesBefore(n) == {k \in 1..Len(files) : k < n /\ IsMidiName(files[k].name)}

\* C9: extract_melody always returns to process_directory, with False when
\* loading, scoring or writing fails, and the walk goes on: every MIDI file
\* the walk has passed was handed to extract_melody and has its result, and
\* the walk ends only behind the last file.
C9_FailureDoesNotStopWalk ==
    /\ \A k \in MidiFilesBefore(fi) :
          Returned(k) /\ \E c \in 1..Len(called) : called[c] = k
    /\ \A k \in 1..Len(files) :
          (Returned(k) /\ (~files[k].parses \/ ~files[k].writable)) => ret[k] = "False"
    /\ pc = "done" => fi = Len(files) + 1
    /\ Len(called) = Cardinality(MidiFilesBefore(IF pc \in {"walk", "done"} THEN fi ELSE fi + 1))

\* the walk is over; a file that could not be loaded and a file that could
\* not be written were each followed by a file that was extracted
C9_Witness ==
    /\ pc = "done"
    /\ \E j, k \in 1..Len(files) :
          j < k /\ ~files[j].parses /\ ret[j] = "False" /\ ret[k] = "True"
    /\ \E j, k \in 1..Len(files) :
          j < k /\ files[j].parses /\ ~files[j].writable /\ ret[j] = "False"
                /\ ret[k] = "True"

EndsInMid(name) ==
    \E suffix \in {<<".","m","i","d">>, <<".","m","i","d","i">>} :
        /\ Len(name) >= Len(suffix)
        /\ \A j \in 1..Len(suffix) :
              LowerChar(name[Len(name) - Len(suffix) + j]) = suffix[j]

\* C13: whenever process_directory is between two files or at its final
\* report, total = success + failed; the files counted in total are exactly
\* the files passed so far whose name ends in .mid or .midi (any letter
\* case), each once, and each of them is counted once in success or once in
\* failed; no other file is counted.
C13_CountsAddUp ==
    /\ pc \in {"walk", "done"} =>
          /\ stats.total = stats.success + stats.failed
          /\ stats.total = Cardinality({k \in 1..(fi - 1) : EndsInMid(files[k].name)})
    /\ pc = "done" =>
          stats.total = Cardinality({k \in 1..Len(files) : EndsInMid(files[k].name)})
    /\ stats.total = Len(called)
    /\ \A a, b \in 1..Len(called) : called[a] = called[b] => a = b
    /\ \A c \in 1..Len(called) : EndsInMid(files[called[c]].name)
    /\ stats.success = Cardinality({k \in 1..Len(files) : ret[k] = "True"})
    /\ stats.failed = Cardinality({k \in 1..Len(files) : ret[k] = "False"})
    /\ \A k \in 1..Len(files) : ~EndsInMid(files[k].name) => ret[k] = "none"

\* the final report of a walk over a file that is no MIDI file, a MIDI file
\* with an upper-case extension that was extracted and a MIDI file that failed
C13_Witness ==
    /\ pc = "done"
    /\ stats.total = 2 /\ stats.success = 1 /\ stats.failed = 1
    /\ Len(files) = 3
    /\ \E k \in 1..Len(files) : ~EndsInMid(files[k].name)
    /\ \E k \in 1..Len(files) :
          /\ ret[k] = "True"
          /\ ~EndsWith(files[k].name, <<".","m","i","d">>)
          /\ ~EndsWith(files[k].name, <<".","m","i","d","i">>)

\* ================================================== src/convert_to_trio.py
\* convert_to_trio copies a three-track MIDI file, renaming the tracks.  A
\* message is a record: channel is NoChannel for a message that has no
\* channel attribute (meta messages), name is "" unless it is a track_name.

\* the longest input track
MaxMsgs == 2

\* hasattr(msg, 'channel') is false
NoChannel == -1

\* line 50: channel=9
DrumChannel == 9

\* line 37
track_names == <<"Drums", "Melody", "Bass">>

\* lines 45 and 54: mido.MetaMessage('track_name', name=..., time=...)
MetaTrackName(name, time) ==
    [type |-> "track_name", channel |-> NoChannel, data |-> <<>>,
     time |-> time, name |-> name]

\* line 49: hasattr(msg, 'channel')
HasChannel(msg) == msg.channel # NoChannel

\* lines 43-51: what is appended to new_track for one message of track i
ConvertMessage(i, msg) ==
    IF msg.type = "track_name"
    THEN MetaTrackName(track_names[i + 1], msg.time)
    ELSE IF i = 0 /\ HasChannel(msg)
         THEN [msg EXCEPT !.channel = DrumChannel]
         ELSE msg

\* lines 41-46: name_written after the loop over the track
name_written(track) == \E k \in 1..Len(track) : track[k].type = "track_name"

\* lines 39-54: new_track for track i (0-based)
ConvertTrack(i, track) ==
    LET copied == [k \in 1..Len(track) |-> ConvertMessage(i, track[k])]
    IN  IF name_written(track)
        THEN copied
        ELSE <<MetaTrackName(track_names[i + 1], 0)>> \o copied

\* ---- inputs
TrioMessages ==
    { MetaTrackName("Piano", 5),
      [type |-> "note_on", channel |-> 0, data |-> <<60, 64>>, time |-> 0,
       name |-> ""],
      [type |-> "note_on", channel |-> 9, data |-> <<36, 100>>, time |-> 3,
       name |-> ""],
      [type |-> "set_tempo", channel |-> NoChannel, data |-> <<500000>>,
       time |-> 0, name |-> ""] }

TrioTrackShapes == UNION { [1..n -> TrioMessages] : n \in 0..MaxMsgs }

TrioFile(parses, tracks, writable) ==
    [parses |-> parses, ticks_per_beat |-> 480, tracks |-> tracks,
     writable |-> writable]

\* three-track files of every shape; files of two and of four tracks; a file
\* mido cannot parse
InitTrioFile ==
    \/ \E a, b, c \in TrioTrackShapes, w \in BOOLEAN :
          midi_file = TrioFile(TRUE, <<a, b, c>>, w)
    \/ \E a \in TrioTrackShapes, extra \in {0, 2} :
          midi_file = TrioFile(TRUE, [k \in 1..(2 + extra) |-> a], TRUE)
    \/ midi_file = TrioFile(FALSE, <<>>, TRUE)

\* process_directory is not running
WalkIdle ==
    /\ files = <<>>
    /\ fi = 1
    /\ pc = "off"
    /\ stats = [total |-> 0, success |-> 0, failed |-> 0]
    /\ midi_data = NoDoc
    /\ track_info = <<>>
    /\ melody_track = 0
    /\ new_midi = NoDoc
    /\ out = <<>>
    /\ ret = <<>>
    /\ called = <<>>
    /\ picked = <<>>

InitTrio ==
    /\ WalkIdle
    /\ FreezeIdle
    /\ InitTrioFile
    /\ trio_pc = "load"
    /\ track_i = 0
    /\ trio_new = <<>>
    /\ trio_saved = <<>>
    /\ trio_ret = "none"

\* lines 25-35: mido.MidiFile(midi_file_path), the track count test and the
\* new file; lines 68-71 when the load raises
TrioLoad ==
    /\ trio_pc = "load"
    /\ IF midi_file.parses /\ Len(midi_file.tracks) = Len(track_names)
       THEN /\ trio_new' = [ticks_per_beat |-> midi_file.ticks_per_beat,
                            tracks |-> <<>>]
            /\ trio_pc' = "tracks"
            /\ UNCHANGED trio_ret
       ELSE /\ trio_ret' = "None"
            /\ trio_pc' = "done"
            /\ UNCHANGED trio_new
    /\ UNCHANGED <<midi_file, track_i, trio_saved>>
    /\ UNCHANGED <<walkVars, freezeVars>>

\* lines 38-55: one round of the loop over the tracks
TrioTrack ==
    /\ trio_pc = "tracks"
    /\ track_i < Len(midi_file.tracks)
    /\ trio_new' = [trio_new EXCEPT !.tracks =
          Append(@, ConvertTrack(track_i, midi_file.tracks[track_i + 1]))]
    /\ track_i' = track_i + 1
    /\ UNCHANGED <<midi_file, trio_pc, trio_saved, trio_ret>>
    /\ UNCHANGED <<walkVars, freezeVars>>

\* lines 59-67: the output directory and new_midi.save; lines 68-71 when
\* they raise
TrioSave ==
    /\ trio_pc = "tracks"
    /\ track_i = Len(midi_file.tracks)
    /\ IF midi_file.writable
       THEN /\ trio_saved' = trio_new
            /\ trio_ret' = "output_path"
       ELSE /\ trio_ret' = "None"
            /\ UNCHANGED trio_saved
    /\ trio_pc' = "done"
    /\ UNCHANGED <<midi_file, track_i, trio_new>>
    /\ UNCHANGED <<walkVars, freezeVars>>

NextTrio ==
    \/ TrioLoad
    \/ TrioTrack
    \/ TrioSave

SpecTrio == InitTrio /\ [][NextTrio]_vars

\* output track `new` is input track `old` with track information changed
\* only: the messages that are no track_name are the same records in the
\* same order, each track_name is replaced in place by one called `name`
\* with the same delta time, and a track_name leads the track at time 0
\* exactly when the input track had none
OnlyTrackInfoChanged(name, old, new) ==
    IF \E k \in 1..Len(old) : old[k].type = "track_name"
    THEN /\ Len(new) = Len(old)
         /\ \A k \in 1..Len(old) :
               IF old[k].type = "track_name"
               THEN new[k] = MetaTrackName(name, old[k].time)
               ELSE new[k] = old[k]
    ELSE /\ Len(new) = Len(old) + 1
         /\ new[1] = MetaTrackName(name, 0)
         /\ \A k \in 1..Len(old) : new[k + 1] = old[k]

\* the same, for messages compared without their channel
SameButChannel(m1, m2) ==
    /\ m1.type = m2.type
    /\ m1.data = m2.data
    /\ m1.time = m2.time
    /\ m1.name = m2.name

\* C11: convert_to_trio on a 3-track file changes only track information:
\* in every output track i the messages that are no track_name are those of
\* input track i, unchanged (type, channel, data, delta time) and in the
\* same order, every track_name is replaced in place by Drums, Melody or
\* Bass for i = 0, 1, 2 with the same delta time, and a track_name is
\* inserted at position 0 only when the track had none.
C11_OnlyTrackInfoChanged ==
    trio_pc \in {"tracks", "done"} /\ trio_new # <<>> =>
        \A j \in 1..Len(trio_new.tracks) :
            OnlyTrackInfoChanged(track_names[j], midi_file.tracks[j],
                                 trio_new.tracks[j])

\* what convert_to_trio does keep: tracks 1 and 2 change in their track
\* information only, track 0 in its track information and in the channel
\* of its channel messages, which all become channel 9
Trio_KeptButDrumChannel ==
    trio_pc \in {"tracks", "done"} /\ trio_new # <<>> =>
        /\ trio_new.ticks_per_beat = midi_file.ticks_per_beat
        /\ \A j \in 2..Len(trio_new.tracks) :
              OnlyTrackInfoChanged(track_names[j], midi_file.tracks[j],
                                   trio_new.tracks[j])
        /\ Len(trio_new.tracks) >= 1 =>
              LET old == midi_file.tracks[1]
                  new == trio_new.tracks[1]
                  off == IF name_written(old) THEN 0 ELSE 1
              IN  /\ Len(new) = Len(old) + off
                  /\ off = 1 => new[1] = MetaTrackName("Drums", 0)
                  /\ \A k \in 1..Len(old) :
                        IF old[k].type = "track_name"
                        THEN new[k + off] = MetaTrackName("Drums", old[k].time)
                        ELSE /\ SameButChannel(new[k + off], old[k])
                             /\ new[k + off].channel =
                                   IF HasChannel(old[k]) THEN DrumChannel
                                   ELSE NoChannel
        /\ trio_ret = "output_path" => trio_saved = trio_new

\* a saved conversion whose track 0 held a message on a channel other than 9
Trio_DrumChannelRewritten ==
    /\ trio_pc = "done"
    /\ trio_ret = "output_path"
    /\ \E k \in 1..Len(midi_file.tracks[1]) :
          /\ HasChannel(midi_file.tracks[1][k])
          /\ midi_file.tracks[1][k].channel # DrumChannel

\* ================================================ src/train_with_freeze.py
\* freeze_layers_for_digiscore walks model.layers and sets trainable = False
\* on the layers its name tests select.  A layer is [name, trainable]; a
\* name is a sequence of characters.

\* the longest list of layers
MaxLayers == 2

\* line 51 and line 60
encoder_mark == <<"e","n","c","o","d","e","r">>
decoder_mark == <<"d","e","c","o","d","e","r">>

\* line 54
encoder_first ==
    << <<"b","i","l","s","t","m","_","0">>,
       <<"r","n","n","_","0">>,
       <<"r","n","n","_","c","e","l","l","_","0">> >>

\* line 63
decoder_base ==
    << <<"c","o","r","e","_","d","e","c","o","d","e","r","_","0">>,
       <<"o","u","t","p","u","t","_","p","r","o","j","e","c","t","i","o","n","_","0">>,
       <<"r","n","n","_","c","e","l","l","_","0","/","l","e","v","e","l","_","0">> >>

\* line 69
latent_marks == << <<"z","_">>, <<"l","a","t","e","n","t">> >>

\* any(x in layer.name for x in marks)
AnyIn(name, marks) == \E k \in 1..Len(marks) : Contains(name, marks[k])

\* lines 51, 60, 69, 73: the branch of the if/elif chain a name takes
Branch(name) ==
    IF Contains(name, encoder_mark) THEN "encoder_layers"
    ELSE IF Contains(name, decoder_mark) THEN "decoder_layers"
    ELSE IF AnyIn(name, latent_marks) THEN "latent_layers"
    ELSE "other_layers"

\* lines 54-55 and 63-64: layer.trainable = False is executed
Freezes(name) ==
    \/ Branch(name) = "encoder_layers" /\ AnyIn(name, encoder_first)
    \/ Branch(name) = "decoder_layers" /\ AnyIn(name, decoder_base)

\* ---- inputs
Join(a, b) ==
    IF a = <<>> THEN b ELSE IF b = <<>> THEN a ELSE a \o <<"/">> \o b

Scopes == { <<>>, <<"e","n","c","o","d","e","r">>, <<"d","e","c","o","d","e","r">> }

Blocks ==
    { <<>>,
      <<"b","i","l","s","t","m","_","0">>,
      <<"r","n","n","_","0">>,
      <<"r","n","n","_","1">>,
      <<"r","n","n","_","c","e","l","l","_","0">>,
      <<"r","n","n","_","c","e","l","l","_","0","/","l","e","v","e","l","_","0">>,
      <<"c","o","r","e","_","d","e","c","o","d","e","r","_","0">>,
      <<"o","u","t","p","u","t","_","p","r","o","j","e","c","t","i","o","n","_","0">> }

Heads == { <<>>, <<"z","_","m","u">>, <<"l","a","t","e","n","t">>, <<"d","e","n","s","e">> }

\* names such as encoder/rnn_0, decoder/core_decoder_0/dense, z_mu
LayerNames ==
    { Join(Join(s, b), h) : s \in Scopes, b \in Blocks, h \in Heads } \ { <<>> }

InitFreeze ==
    /\ WalkIdle
    /\ TrioIdle
    /\ \E n \in 0..MaxLayers :
          \E names \in [1..n -> LayerNames], flags \in [1..n -> BOOLEAN] :
              model_layers = [k \in 1..n |->
                                 [name |-> names[k], trainable |-> flags[k]]]
    /\ layer_i = 1
    /\ counts = [frozen_count |-> 0, trainable_count |-> 0,
                 encoder_layers |-> 0, decoder_layers |-> 0,
                 latent_layers |-> 0, other_layers |-> 0]
    /\ set_false = {}
    /\ freeze_pc = "layers"

\* lines 50-75: one round of the loop over model.layers
FreezeLayer ==
    /\ freeze_pc = "layers"
    /\ layer_i <= Len(model_layers)
    /\ LET name == model_layers[layer_i].name
           frozen == Freezes(name)
       IN  /\ model_layers' =
                 IF frozen
                 THEN [model_layers EXCEPT ![layer_i].trainable = FALSE]
                 ELSE model_layers
           /\ set_false' = IF frozen THEN set_false \cup {layer_i} ELSE set_false
           /\ counts' =
                 [counts EXCEPT
                     ![Branch(name)] = @ + 1,
                     ![IF frozen THEN "frozen_count" ELSE "trainable_count"] = @ + 1]
    /\ layer_i' = layer_i + 1
    /\ UNCHANGED freeze_pc
    /\ UNCHANGED <<walkVars, trioVars>>

\* lines 77-87: the statistics are printed
FreezeReport ==
    /\ freeze_pc = "layers"
    /\ layer_i > Len(model_layers)
    /\ freeze_pc' = "done"
    /\ UNCHANGED <<model_layers, layer_i, counts, set_false>>
    /\ UNCHANGED <<walkVars, trioVars>>

NextFreeze ==
    \/ FreezeLayer
    \/ FreezeReport

SpecFreeze == InitFreeze /\ [][NextFreeze]_vars

\* the name says latent space: it contains "z_" or "latent"
LatentName(name) == Contains(name, <<"z","_">>) \/ Contains(name, <<"l","a","t","e","n","t">>)

\* the name says first recurrent layer of the encoder
EncoderFirstName(name) ==
    /\ Contains(name, <<"e","n","c","o","d","e","r">>)
    /\ \/ Contains(name, <<"b","i","l","s","t","m","_","0">>)
       \/ Contains(name, <<"r","n","n","_","0">>)
       \/ Contains(name, <<"r","n","n","_","c","e","l","l","_","0">>)

\* the name says base layer of the decoder
DecoderBaseName(name) ==
    /\ Contains(name, <<"d","e","c","o","d","e","r">>)
    /\ \/ Contains(name, <<"c","o","r","e","_","d","e","c","o","d","e","r","_","0">>)
       \/ Contains(name, <<"o","u","t","p","u","t","_","p","r","o","j","e","c","t","i","o","n","_","0">>)
       \/ Contains(name, <<"r","n","n","_","c","e","l","l","_","0","/","l","e","v","e","l","_","0">>)

\* C12: freeze_layers_for_digiscore keeps the latent space fully trainable:
\* no layer whose name contains "z_" or "latent" has been set to
\* trainable = False by it, and the layers it has set to trainable = False
\* are only first recurrent layers of the encoder and base layers of the
\* decoder.
C12_LatentStaysTrainable ==
    \A k \in set_false :
        /\ ~LatentName(model_layers[k].name)
        /\ EncoderFirstName(model_layers[k].name)
              \/ DecoderBaseName(model_layers[k].name)

\* what freeze_layers_for_digiscore does keep: it freezes only layers named
\* as first recurrent layers of the encoder or base layers of the decoder,
\* never sets a layer trainable, and counts every layer once in frozen or
\* trainable and once in one of the four categories
Freeze_OnlyNamedLayersFrozen ==
    /\ \A k \in set_false :
          /\ ~model_layers[k].trainable
          /\ EncoderFirstName(model_layers[k].name)
                \/ DecoderBaseName(model_layers[k].name)
    /\ freeze_pc \in {"layers", "done"} =>
          /\ counts.frozen_count = Cardinality(set_false)
          /\ counts.frozen_count + counts.trainable_count = layer_i - 1
          /\ counts.encoder_layers + counts.decoder_layers
                + counts.latent_layers + counts.other_layers = layer_i - 1

\* the run is over and a layer named after the latent space was frozen
Freeze_LatentLayerFrozen ==
    /\ freeze_pc = "done"
    /\ \E k \in set_false : LatentName(model_layers[k].name)

====
